---------------------------- MODULE Spec2Model ----------------------------
(***************************************************************************)
(* A model of zoe-pointcloud (src/src/main.cpp): the shader program        *)
(* builder, the depth-to-point-cloud reconstruction, the Generate handler  *)
(* with the per-instance GPU buffer and the per-frame instanced draw, and  *)
(* the orbit camera's event handlers.                                      *)
(*                                                                         *)
(* Numbers.  The program computes in 32-bit floats; the model computes the *)
(* same expressions over exact rationals <<n, d>> (d > 0, lowest terms),   *)
(* so rounding is not modelled.  Angles are kept in tenths of a degree,    *)
(* the unit in which rotate_speed (0.1 degree per pixel) is 1.             *)
(***************************************************************************)
EXTENDS Integers, Sequences, FiniteSets, TLC

VARIABLES
    \* ---- one call of create_program(vs_path, fs_path) ----
    build_pc,        \* position inside create_program(path, path)
    build_env,       \* what the file system and the GL compiler/linker answer
    gl_shaders,      \* GL shader objects: name -> "live" | "delete_pending"
    gl_programs,     \* GL program objects: name -> set of attached shader names
    build_locals,    \* vs, fs, program: the std::expected locals
    build_result,    \* the value create_program(path, path) returns
    build_created,   \* history: names handed out by glCreate* during the call
    build_baseline,  \* history: number of GL objects alive before the call
    \* ---- one call of generate_depth_cloud ----
    rc_pc,           \* "call" before the call, "returned" after it
    rc_args,         \* image file, depth file, focal_length, stride
    rc_result,       \* the std::expected it returns
    rc_heap,         \* decoded rasters still allocated
    \* ---- the session of main(): UI handlers and the frame's draw ----
    frame_pc,        \* "draw" | "ui": position inside one iteration of the loop
    vertices,        \* std::optional<std::vector<vertex_t>>
    gl_buffers,      \* buffer object -> data store
    array_buffer_binding, \* the buffer bound to GL_ARRAY_BUFFER
    last_error_message,
    popup_open,      \* the "Error" modal
    last_draw,       \* what the latest frame submitted
    result,          \* the handler's local `result` of the latest Generate
    leaked_rasters,  \* rasters the session never freed
    \* ---- the orbit camera and the mouse state ----
    camera,
    holding_mouse1,
    holding_mouse2

buildVars == <<build_pc, build_env, gl_shaders, gl_programs, build_locals,
               build_result, build_created, build_baseline>>
reconVars == <<rc_pc, rc_args, rc_result, rc_heap>>
appVars   == <<frame_pc, vertices, gl_buffers, array_buffer_binding,
               last_error_message, popup_open, last_draw, result,
               leaked_rasters>>
camVars   == <<camera, holding_mouse1, holding_mouse2>>
vars      == <<buildVars, reconVars, appVars, camVars>>

-----------------------------------------------------------------------------
(* Bounds of the model.                                                    *)
MaxDim == 4            \* image width and height range over 1..MaxDim
MaxStride == 3         \* stride ranges over 1..MaxStride, and INT_MAX
MaxGrayLevel == 2      \* depth samples are 0, 255, ..., 255 * MaxGrayLevel
FocalLengths == {1, 2}
ColorSeeds == {0, 7}

(* Program constants.                                                      *)
DepthScale == 255      \* gray / 255.0f
ColorScale == 255      \* r / 255.f
ReqComp == 3           \* channels requested from both stbi loads
IntMax == 2147483647   \* the largest value of main's int stride

NULL == [null |-> TRUE]                 \* a null raster pointer
nullopt == [has_value |-> FALSE]        \* an empty std::optional

-----------------------------------------------------------------------------
(* Exact rationals.                                                        *)
Abs(x) == IF x < 0 THEN -x ELSE x

RECURSIVE GCD(_, _)
GCD(a, b) == IF b = 0 THEN a ELSE GCD(b, a % b)

Rat(n, d) ==
    LET s == IF d < 0 THEN -1 ELSE 1
        g == GCD(Abs(n), Abs(d))
    IN  <<(s * n) \div g, (s * d) \div g>>

RatInt(n) == <<n, 1>>
RatMul(a, b) == Rat(a[1] * b[1], a[2] * b[2])
RatDiv(a, b) == Rat(a[1] * b[2], a[2] * b[1])
RatSub(a, b) == Rat(a[1] * b[2] - b[1] * a[2], a[2] * b[2])
RatLess(a, b) == a[1] * b[2] < b[1] * a[2]
RatMax(a, b) == IF RatLess(a, b) THEN b ELSE a

-----------------------------------------------------------------------------
(* Image files and the decoder.  A file is NULL-decodable ("undecodable")  *)
(* or holds w, h, its own channel count ch and one tuple of ch samples per *)
(* pixel, in row-major order.                                              *)
Undecodable == [decodable |-> FALSE]

\* stb_image's conversion of one pixel to the requested channel count
\* (stbi__convert_format: gray is replicated, rgb is kept).
ConvertPixel(px, ch, req_comp) ==
    IF ch = req_comp THEN px
    ELSE [c \in 1..req_comp |-> px[1]]

RECURSIVE Flatten(_)
Flatten(pxs) == IF pxs = <<>> THEN <<>> ELSE Head(pxs) \o Flatten(Tail(pxs))

\* stbi_load(path, &w, &h, &ch, req_comp): NULL, or the raster with req_comp
\* samples per pixel; ch reports the channels of the file, not of the raster.
stbi_load(file, req_comp) ==
    IF file = Undecodable THEN NULL
    ELSE [null |-> FALSE, w |-> file.w, h |-> file.h, ch |-> file.ch,
          data |-> Flatten([i \in 1..Len(file.px) |->
                              ConvertPixel(file.px[i], file.ch, req_comp)])]

\* Variant: the depth raster keeps the file's single channel.
stbi_load_16_file_channels(file, req_comp) == stbi_load(file, 1)

\* stbi_load_16: the same decoding, 16-bit samples.
stbi_load_16(file, req_comp) == stbi_load(file, req_comp)

\* C array read p[index]; a read past the raster is undefined and is given
\* the marker -1 here (the code as written never makes one).
At(data, index) ==
    IF index >= 0 /\ index < Len(data) THEN data[index + 1] ELSE -1

-----------------------------------------------------------------------------
(* generate_depth_cloud                                                    *)
IoMsg == "Failed to read image or depth map."
FormatMsg == "Image and depth map not same resolution or invalid channel count."

\* Variant: the midpoint by integer division.
center_of_truncated(n) == RatInt(n \div 2)

center_of(n) == RatMul(RatInt(n), Rat(1, 2))

\* The body of the inner loop for one (u, v): lines 168-196.
VisitPixel(acc, u, v, pixels1, pixels2, w1, h1, ch1, focal_length) ==
    IF v >= h1 \/ u >= w1 THEN acc
    ELSE
    LET index == (u + v * w1) * ch1
        r == At(pixels1, index)
        g == At(pixels1, index + 1)
        b == At(pixels1, index + 2)
        gray == At(pixels2, index)
        depth == Rat(gray, DepthScale)
        max_depth == IF RatLess(acc.max_depth, depth) THEN depth
                     ELSE acc.max_depth
        position == << RatDiv(RatMul(depth, RatSub(RatInt(w1 - u), center_of(w1))),
                              RatInt(focal_length)),
                       RatDiv(RatMul(depth, RatSub(RatInt(h1 - v), center_of(h1))),
                              RatInt(focal_length)),
                       depth >>
        color == << Rat(r, ColorScale), Rat(g, ColorScale), Rat(b, ColorScale) >>
    IN  [vertices |-> Append(acc.vertices, [position |-> position, color |-> color]),
         max_depth |-> max_depth]

\* Variant: a column is visited only when a whole stride fits after it.
RECURSIVE ScanCols_whole_strides(_, _, _, _, _, _, _, _, _, _)
ScanCols_whole_strides(acc, u, v, pixels1, pixels2, w1, h1, ch1, focal_length, stride) ==
    IF ~(u + stride <= w1) THEN acc
    ELSE ScanCols_whole_strides(
             VisitPixel(acc, u, v, pixels1, pixels2, w1, h1, ch1, focal_length),
             u + stride, v, pixels1, pixels2, w1, h1, ch1, focal_length, stride)

\* for (int u = 0; u < w1; u += stride)
RECURSIVE ScanCols(_, _, _, _, _, _, _, _, _, _)
ScanCols(acc, u, v, pixels1, pixels2, w1, h1, ch1, focal_length, stride) ==
    IF ~(u < w1) THEN acc
    ELSE ScanCols(VisitPixel(acc, u, v, pixels1, pixels2, w1, h1, ch1, focal_length),
                  u + stride, v, pixels1, pixels2, w1, h1, ch1, focal_length, stride)

\* for (int v = 0; v < h1; v += stride)
RECURSIVE ScanRows(_, _, _, _, _, _, _, _, _)
ScanRows(acc, v, pixels1, pixels2, w1, h1, ch1, focal_length, stride) ==
    IF ~(v < h1) THEN acc
    ELSE ScanRows(ScanCols(acc, 0, v, pixels1, pixels2, w1, h1, ch1, focal_length, stride),
                  v + stride, pixels1, pixels2, w1, h1, ch1, focal_length, stride)

\* The rasters generate_depth_cloud has not passed to stbi_image_free when it
\* returns from the read-failure branch (lines 149-150).
UnfreedOnIoError(img, dep) ==
    (IF img # NULL THEN {"pixels1"} ELSE {}) \cup
    (IF dep # NULL THEN {"pixels2"} ELSE {})

generate_depth_cloud(image_file, depth_file, focal_length, stride) ==
    LET img == stbi_load(image_file, ReqComp)
        dep == stbi_load_16(depth_file, ReqComp)
    IN  IF img = NULL \/ dep = NULL
        THEN [ok |-> FALSE, error |-> IoMsg, unfreed |-> UnfreedOnIoError(img, dep)]
        ELSE IF img.w # dep.w \/ img.h # dep.h \/ img.ch # 3 \/ dep.ch # 1
        THEN [ok |-> FALSE, error |-> FormatMsg, unfreed |-> {}]
        ELSE LET out == ScanRows([vertices |-> <<>>, max_depth |-> RatInt(0)], 0,
                                 img.data, dep.data, img.w, img.h, img.ch,
                                 focal_length, stride)
             IN  [ok |-> TRUE, vertices |-> out.vertices,
                  max_depth |-> out.max_depth, unfreed |-> {}]

-----------------------------------------------------------------------------
(* The input files the model draws from.  A color file has three channels  *)
(* and gives every pixel its own color, so that a point's color tells      *)
(* which pixel it came from; a depth file has one channel, the sample      *)
(* `base` everywhere except `peakval` at pixel number `peak`.              *)
Dims == 1..MaxDim
GrayLevels == {DepthScale * k : k \in 0..MaxGrayLevel}
\* main's stride is an int and reaches generate_depth_cloud as unsigned int;
\* the positive ones are 1..INT_MAX.  `u += stride` then never leaves the int
\* range: a stride below the dimension keeps u below twice the dimension, any
\* other stride ends the loop after its first addition to 0.
Strides == (1..MaxStride) \cup {IntMax}

ColorPixel(seed, i) == <<(seed + i) % 256, (3 * i + 1) % 256, seed>>

ColorFile(w, h, seed) ==
    [decodable |-> TRUE, w |-> w, h |-> h, ch |-> 3,
     px |-> [i \in 1..(w * h) |-> ColorPixel(seed, i - 1)]]

\* a grayscale file given as the color image
GrayColorFile(w, h, seed) ==
    [decodable |-> TRUE, w |-> w, h |-> h, ch |-> 1,
     px |-> [i \in 1..(w * h) |-> <<(seed + i - 1) % 256>>]]

DepthFile(w, h, peak, base, peakval) ==
    [decodable |-> TRUE, w |-> w, h |-> h, ch |-> 1,
     px |-> [i \in 1..(w * h) |-> <<IF i - 1 = peak THEN peakval ELSE base>>]]

\* a three-channel file given as the depth map
RgbDepthFile(w, h, base) ==
    [decodable |-> TRUE, w |-> w, h |-> h, ch |-> 3,
     px |-> [i \in 1..(w * h) |-> <<base, base, base>>]]

ImageFiles(w, h) ==
    {Undecodable} \cup {ColorFile(w, h, s) : s \in ColorSeeds}
                  \cup {GrayColorFile(w, h, s) : s \in ColorSeeds}

DepthFiles(w, h) ==
    {Undecodable}
    \cup {DepthFile(w, h, p, b, k) : p \in 0..(w * h - 1), b \in GrayLevels, k \in GrayLevels}
    \cup {DepthFile(w + 1, h, 0, b, b) : b \in GrayLevels}
    \cup {RgbDepthFile(w, h, b) : b \in GrayLevels}

-----------------------------------------------------------------------------
(* One call of generate_depth_cloud on drawn arguments.                    *)
ReconInit ==
    /\ rc_pc = "call"
    /\ \E w \in Dims, h \in Dims :
         \E img \in ImageFiles(w, h), dep \in DepthFiles(w, h),
            f \in FocalLengths, s \in Strides :
            rc_args = [image_file |-> img, depth_file |-> dep,
                       focal_length |-> f, stride |-> s]
    /\ rc_result = [ok |-> FALSE, error |-> "", unfreed |-> {}]
    /\ rc_heap = {}

Reconstruct ==
    /\ rc_pc = "call"
    /\ rc_pc' = "returned"
    /\ rc_result' = generate_depth_cloud(rc_args.image_file, rc_args.depth_file,
                                         rc_args.focal_length, rc_args.stride)
    /\ rc_heap' = rc_result'.unfreed
    /\ UNCHANGED rc_args

-----------------------------------------------------------------------------
(* The GL object model used by the shader program builder.  Shader and     *)
(* program names come from one name space; glCreate* hands out an unused   *)
(* name.  glDeleteShader deletes a shader at once unless it is attached to *)
(* a program, in which case it is only flagged ("delete_pending") and goes *)
(* away when it is detached; glDeleteProgram detaches what is attached.    *)
MaxPreexisting == 2    \* GL objects alive before the call: 0..MaxPreexisting of each kind

SetMax(S) == IF S = {} THEN 0 ELSE CHOOSE x \in S : \A y \in S : y <= x

NewName(shaders, programs) == SetMax(DOMAIN shaders \cup DOMAIN programs) + 1

Restrict(f, S) == [x \in S |-> f[x]]

AttachedSomewhere(programs, s) == \E p \in DOMAIN programs : s \in programs[p]

\* glDeleteShader(s) on the shader table
glDeleteShader(shaders, programs, s) ==
    IF s \notin DOMAIN shaders THEN shaders
    ELSE IF AttachedSomewhere(programs, s)
         THEN [shaders EXCEPT ![s] = "delete_pending"]
         ELSE Restrict(shaders, DOMAIN shaders \ {s})

\* glDeleteProgram(p): the program table afterwards
glDeleteProgram_programs(programs, p) == Restrict(programs, DOMAIN programs \ {p})

\* glDeleteProgram(p): the shader table afterwards (flagged shaders that are
\* no longer attached anywhere are deleted)
glDeleteProgram_shaders(shaders, programs, p) ==
    LET rest == glDeleteProgram_programs(programs, p)
        gone == {s \in DOMAIN shaders :
                    shaders[s] = "delete_pending" /\ ~AttachedSomewhere(rest, s)}
    IN  Restrict(shaders, DOMAIN shaders \ gone)

Ok(v) == [ok |-> TRUE, value |-> v]
Unexpected(e) == [ok |-> FALSE, error |-> e]
NoValue == [ok |-> FALSE, error |-> "unset"]

\* create_shader(type, src): the shader is created, compiled and, when the
\* compilation fails, deleted before the error is returned.
create_shader_value(shaders, programs, compiles) ==
    IF compiles THEN Ok(NewName(shaders, programs))
    ELSE Unexpected("Shader compilation error")

create_shader_shaders(shaders, programs, compiles) ==
    LET id == NewName(shaders, programs)
        made == [x \in DOMAIN shaders \cup {id} |->
                    IF x = id THEN "live" ELSE shaders[x]]
    IN  IF compiles THEN made ELSE glDeleteShader(made, programs, id)

\* create_program(vs, fs): the program is created, both stages are attached,
\* it is linked and, when the link fails, deleted before the error is returned.
create_program_value(shaders, programs, links) ==
    IF links THEN Ok(NewName(shaders, programs))
    ELSE Unexpected("Shader program linking error")

create_program_programs(shaders, programs, vs, fs, links) ==
    LET id == NewName(shaders, programs)
        made == [x \in DOMAIN programs \cup {id} |->
                    IF x = id THEN {vs, fs} ELSE programs[x]]
    IN  IF links THEN made ELSE glDeleteProgram_programs(made, id)

create_program_shaders(shaders, programs, vs, fs, links) ==
    LET id == NewName(shaders, programs)
        made == [x \in DOMAIN programs \cup {id} |->
                    IF x = id THEN {vs, fs} ELSE programs[x]]
    IN  IF links THEN shaders ELSE glDeleteProgram_shaders(shaders, made, id)

-----------------------------------------------------------------------------
(* create_program(vs_path, fs_path), statement by statement.               *)
BuildInit ==
    /\ build_pc = "read_vs"
    /\ build_env \in [vs_readable : BOOLEAN, fs_readable : BOOLEAN,
                      vs_compiles : BOOLEAN, fs_compiles : BOOLEAN,
                      links : BOOLEAN]
    /\ \E ns \in 0..MaxPreexisting, np \in 0..MaxPreexisting :
          /\ gl_shaders = [x \in 1..ns |-> "live"]
          /\ gl_programs = [x \in (ns + 1)..(ns + np) |-> {}]
          /\ build_baseline = ns + np
    /\ build_locals = [vs |-> NoValue, fs |-> NoValue, program |-> NoValue]
    /\ build_result = NoValue
    /\ build_created = [shaders |-> {}, programs |-> {}]

\* line 114-115
ReadVs ==
    /\ build_pc = "read_vs"
    /\ IF build_env.vs_readable
       THEN build_pc' = "read_fs" /\ UNCHANGED build_result
       ELSE build_pc' = "returned" /\ build_result' = Unexpected("Failed to read vs")
    /\ UNCHANGED <<build_env, gl_shaders, gl_programs, build_locals,
                   build_created, build_baseline>>

\* line 117-118
ReadFs ==
    /\ build_pc = "read_fs"
    /\ IF build_env.fs_readable
       THEN build_pc' = "compile_vs" /\ UNCHANGED build_result
       ELSE build_pc' = "returned" /\ build_result' = Unexpected("Failed to read fs")
    /\ UNCHANGED <<build_env, gl_shaders, gl_programs, build_locals,
                   build_created, build_baseline>>

\* line 120-121
CompileVs ==
    /\ build_pc = "compile_vs"
    /\ LET vs == create_shader_value(gl_shaders, gl_programs, build_env.vs_compiles)
       IN  /\ build_locals' = [build_locals EXCEPT !.vs = vs]
           /\ gl_shaders' = create_shader_shaders(gl_shaders, gl_programs,
                                                  build_env.vs_compiles)
           /\ build_created' = [build_created EXCEPT
                 !.shaders = @ \cup {NewName(gl_shaders, gl_programs)}]
           /\ IF vs.ok
              THEN build_pc' = "compile_fs" /\ UNCHANGED build_result
              ELSE build_pc' = "returned" /\ build_result' = Unexpected(vs.error)
    /\ UNCHANGED <<build_env, gl_programs, build_baseline>>

\* Variant: the fragment stage's failure returns without deleting vs.
CompileFs_keeps_vs ==
    /\ build_pc = "compile_fs"
    /\ LET fs == create_shader_value(gl_shaders, gl_programs, build_env.fs_compiles)
       IN  /\ build_locals' = [build_locals EXCEPT !.fs = fs]
           /\ build_created' = [build_created EXCEPT
                 !.shaders = @ \cup {NewName(gl_shaders, gl_programs)}]
           /\ gl_shaders' = create_shader_shaders(gl_shaders, gl_programs,
                                                  build_env.fs_compiles)
           /\ IF fs.ok
              THEN build_pc' = "link" /\ UNCHANGED build_result
              ELSE build_pc' = "returned" /\ build_result' = Unexpected(fs.error)
    /\ UNCHANGED <<build_env, gl_programs, build_baseline>>

\* line 123-128
CompileFs ==
    /\ build_pc = "compile_fs"
    /\ LET fs == create_shader_value(gl_shaders, gl_programs, build_env.fs_compiles)
           after == create_shader_shaders(gl_shaders, gl_programs,
                                          build_env.fs_compiles)
       IN  /\ build_locals' = [build_locals EXCEPT !.fs = fs]
           /\ build_created' = [build_created EXCEPT
                 !.shaders = @ \cup {NewName(gl_shaders, gl_programs)}]
           /\ IF fs.ok
              THEN /\ gl_shaders' = after
                   /\ build_pc' = "link"
                   /\ UNCHANGED build_result
              ELSE /\ gl_shaders' = glDeleteShader(after, gl_programs,
                                                   build_locals.vs.value)
                   /\ build_pc' = "returned"
                   /\ build_result' = Unexpected(fs.error)
    /\ UNCHANGED <<build_env, gl_programs, build_baseline>>

\* line 130
Link ==
    /\ build_pc = "link"
    /\ LET vs == build_locals.vs.value
           fs == build_locals.fs.value
       IN  /\ build_locals' = [build_locals EXCEPT !.program =
                 create_program_value(gl_shaders, gl_programs, build_env.links)]
           /\ gl_programs' = create_program_programs(gl_shaders, gl_programs,
                                                     vs, fs, build_env.links)
           /\ gl_shaders' = create_program_shaders(gl_shaders, gl_programs,
                                                   vs, fs, build_env.links)
           /\ build_created' = [build_created EXCEPT
                 !.programs = @ \cup {NewName(gl_shaders, gl_programs)}]
    /\ build_pc' = "delete_vs"
    /\ UNCHANGED <<build_env, build_result, build_baseline>>

\* line 132
DeleteVs ==
    /\ build_pc = "delete_vs"
    /\ gl_shaders' = glDeleteShader(gl_shaders, gl_programs, build_locals.vs.value)
    /\ build_pc' = "delete_fs"
    /\ UNCHANGED <<build_env, gl_programs, build_locals, build_result,
                   build_created, build_baseline>>

\* line 133
DeleteFs ==
    /\ build_pc = "delete_fs"
    /\ gl_shaders' = glDeleteShader(gl_shaders, gl_programs, build_locals.fs.value)
    /\ build_pc' = "check_program"
    /\ UNCHANGED <<build_env, gl_programs, build_locals, build_result,
                   build_created, build_baseline>>

\* line 134-136
ReturnProgram ==
    /\ build_pc = "check_program"
    /\ build_result' = IF build_locals.program.ok
                       THEN build_locals.program
                       ELSE Unexpected(build_locals.program.error)
    /\ build_pc' = "returned"
    /\ UNCHANGED <<build_env, gl_shaders, gl_programs, build_locals,
                   build_created, build_baseline>>

-----------------------------------------------------------------------------
(* The session of main(): buffers, the frame's draw and the UI handlers.   *)
MaxAppDim == 2         \* the session's Generate draws images up to MaxAppDim x MaxAppDim
MaxLeaks == 2          \* the session stops decoding once this many rasters leaked
AppGrays == {0, 255}
AppSeeds == {0}
AppFocalLengths == {1}

\* cube_mesh, lines 262-287
CubeVertices == << -1, -1, -1,   1, -1, -1,   1, 1, -1,   -1, 1, -1,
                   -1, -1, 1,    1, -1, 1,    1, 1, 1,    -1, 1, 1 >>
CubeIndices == << 0, 1, 3,  3, 1, 2,  1, 5, 2,  2, 5, 6,  5, 4, 6,  6, 4, 7,
                  4, 0, 7,  7, 0, 3,  3, 2, 7,  7, 2, 6,  4, 5, 0,  0, 5, 1 >>

\* The buffer the instanced attributes 1 and 2 read from (lines 308-319).
InstanceBuffer == "point_cloud_vbo"

\* Variant: the new records are written after the ones already stored.
glBufferData_appending(buffers, binding, data) ==
    [buffers EXCEPT ![binding] = @ \o data]

\* glBufferData(GL_ARRAY_BUFFER, size, data, usage): the data store of the
\* buffer bound to GL_ARRAY_BUFFER is replaced by a new one holding data.
glBufferData(buffers, binding, data) == [buffers EXCEPT ![binding] = data]

NoResult == [ok |-> FALSE, error |-> "", unfreed |-> {}]
NoDraw == [rendered |-> FALSE, submitted |-> FALSE, instances |-> 0]

Origin(z) == [z |-> z, pan_right |-> 0, pan_up |-> 0]

\* camera_t camera, lines 327-336.  origin is kept as its depth coordinate
\* and the pan applied since it was last set: pan_up counts multiples of
\* up * pan_speed, pan_right multiples of right * pan_speed.
InitCamera ==
    [origin |-> Origin(RatInt(0)), distance |-> RatInt(5), pitch |-> 0, yaw |-> 900]

AppArgs ==
    LET dims == 1..MaxAppDim
        good == {[image_file |-> ColorFile(w, h, s),
                  depth_file |-> DepthFile(w, h, 0, b, b),
                  focal_length |-> f, stride |-> st] :
                    w \in dims, h \in dims, s \in AppSeeds,
                    b \in AppGrays, f \in AppFocalLengths,
                    st \in dims}
        img == ColorFile(1, 1, 0)
        dep == DepthFile(1, 1, 0, 255, 255)
        bad == {[image_file |-> i, depth_file |-> d, focal_length |-> 1, stride |-> 1] :
                    i \in {Undecodable, img},
                    d \in {Undecodable, dep, DepthFile(2, 1, 0, 255, 255)}}
    IN  good \cup bad

AppInit ==
    /\ frame_pc = "draw"
    /\ vertices = nullopt
    /\ gl_buffers = [mesh_vbo |-> CubeVertices, mesh_ebo |-> CubeIndices,
                     point_cloud_vbo |-> <<>>]
    /\ array_buffer_binding = "point_cloud_vbo"
    /\ last_error_message = ""
    /\ popup_open = FALSE
    /\ last_draw = NoDraw
    /\ result = NoResult
    /\ leaked_rasters = 0

\* Variant: the draw is submitted whether or not a cloud is present.
DrawFrame_unconditional ==
    /\ frame_pc = "draw"
    /\ last_draw' = [rendered |-> TRUE, submitted |-> TRUE,
                     instances |-> IF vertices.has_value
                                   THEN Len(vertices.value) ELSE 0]
    /\ frame_pc' = "ui"
    /\ UNCHANGED <<vertices, gl_buffers, array_buffer_binding, last_error_message,
                   popup_open, result, leaked_rasters, camera>>

\* lines 438-439: the frame's instanced draw
DrawFrame ==
    /\ frame_pc = "draw"
    /\ last_draw' = IF vertices.has_value
                    THEN [rendered |-> TRUE, submitted |-> TRUE,
                          instances |-> Len(vertices.value)]
                    ELSE [rendered |-> TRUE, submitted |-> FALSE, instances |-> 0]
    /\ frame_pc' = "ui"
    /\ UNCHANGED <<vertices, gl_buffers, array_buffer_binding, last_error_message,
                   popup_open, result, leaked_rasters, camera>>

\* Variant: a failed attempt clears the cloud and its buffer.
GenerateButton_clearing(args) ==
    /\ frame_pc = "ui"
    /\ result' = generate_depth_cloud(args.image_file, args.depth_file,
                                      args.focal_length, args.stride)
    /\ leaked_rasters + Cardinality(result'.unfreed) <= MaxLeaks
    /\ leaked_rasters' = leaked_rasters + Cardinality(result'.unfreed)
    /\ IF ~result'.ok
       THEN /\ last_error_message' = result'.error
            /\ popup_open' = TRUE
            /\ vertices' = nullopt
            /\ gl_buffers' = glBufferData(gl_buffers, array_buffer_binding, <<>>)
            /\ UNCHANGED camera
       ELSE /\ vertices' = [has_value |-> TRUE, value |-> result'.vertices]
            /\ camera' = [camera EXCEPT !.origin = Origin(result'.max_depth)]
            /\ gl_buffers' = glBufferData(gl_buffers, array_buffer_binding,
                                          vertices'.value)
            /\ UNCHANGED <<last_error_message, popup_open>>
    /\ frame_pc' = "draw"
    /\ UNCHANGED <<array_buffer_binding, last_draw>>

\* lines 459-471: the Generate button's handler
GenerateButton(args) ==
    /\ frame_pc = "ui"
    /\ result' = generate_depth_cloud(args.image_file, args.depth_file,
                                      args.focal_length, args.stride)
    /\ leaked_rasters + Cardinality(result'.unfreed) <= MaxLeaks
    /\ leaked_rasters' = leaked_rasters + Cardinality(result'.unfreed)
    /\ IF ~result'.ok
       THEN /\ last_error_message' = result'.error
            /\ popup_open' = TRUE
            /\ UNCHANGED <<vertices, camera, gl_buffers>>
       ELSE /\ vertices' = [has_value |-> TRUE, value |-> result'.vertices]
            /\ camera' = [camera EXCEPT !.origin = Origin(result'.max_depth)]
            /\ gl_buffers' = glBufferData(gl_buffers, array_buffer_binding,
                                          vertices'.value)
            /\ UNCHANGED <<last_error_message, popup_open>>
    /\ frame_pc' = "draw"
    /\ UNCHANGED <<array_buffer_binding, last_draw>>

\* lines 482-488: the Close button of the error popup
ClosePopup ==
    /\ frame_pc = "ui"
    /\ popup_open
    /\ popup_open' = FALSE
    /\ frame_pc' = "draw"
    /\ UNCHANGED <<vertices, gl_buffers, array_buffer_binding, last_error_message,
                   last_draw, result, leaked_rasters, camera>>

\* a frame in which no button is pressed
NoClick ==
    /\ frame_pc = "ui"
    /\ frame_pc' = "draw"
    /\ UNCHANGED <<vertices, gl_buffers, array_buffer_binding, last_error_message,
                   popup_open, last_draw, result, leaked_rasters, camera>>

-----------------------------------------------------------------------------
(* The orbit camera: the mouse handlers of the event loop, lines 384-419.  *)
DeltaUnit == 450       \* mouse deltas are -2, -1, 0, 1, 2 times DeltaUnit pixels
MaxYaw == 2000         \* rotation is cut off once |yaw| would pass MaxYaw tenths of a degree
MaxPan == 450          \* panning is cut off once |pan| would pass MaxPan
MaxZoomSteps == 2      \* zooming is cut off MaxZoomSteps wheel steps away from the start

RotateSpeed == 1       \* rotate_speed = .1f degrees per pixel, in tenths of a degree
PitchLimit == 890      \* std::clamp(camera.pitch, -89.f, 89.f), in tenths of a degree
ZoomScale == Rat(1, 10)     \* zoom_scale = .1f

Deltas == {k * DeltaUnit : k \in -2..2}
WheelValues == {-2, -1, 0, 1, 2}
Buttons == {"left", "right", "middle"}

RECURSIVE RatPow(_, _)
RatPow(a, n) == IF n = 0 THEN RatInt(1) ELSE RatMul(a, RatPow(a, n - 1))

Clamp(x, lo, hi) == IF x < lo THEN lo ELSE IF hi < x THEN hi ELSE x

OnePlusZoom == Rat(ZoomScale[2] + ZoomScale[1], ZoomScale[2])

\* Variant: the pitch is not clamped.
RotatedPitch_unclamped(pitch, y_rel) == pitch + (-y_rel) * RotateSpeed

\* Variant: zooming in multiplies by (1 - zoom_scale).
ZoomedDistance_one_minus(distance, wheel_y) ==
    LET scaled == IF wheel_y > 0
                  THEN RatMul(distance, Rat(ZoomScale[2] - ZoomScale[1], ZoomScale[2]))
                  ELSE IF wheel_y < 0 THEN RatMul(distance, OnePlusZoom)
                  ELSE distance
    IN  RatMax(RatInt(0), scaled)

\* lines 389-391
RotatedYaw(yaw, x_rel) == yaw + x_rel * RotateSpeed

RotatedPitch(pitch, y_rel) ==
    Clamp(pitch + (-y_rel) * RotateSpeed, -PitchLimit, PitchLimit)

\* lines 401-406
ZoomedDistance(distance, wheel_y) ==
    LET scaled == IF wheel_y > 0 THEN RatDiv(distance, OnePlusZoom)
                  ELSE IF wheel_y < 0 THEN RatMul(distance, OnePlusZoom)
                  ELSE distance
    IN  RatMax(RatInt(0), scaled)

\* the distances MaxZoomSteps wheel steps away from the initial one
MaxDistance == RatMul(InitCamera.distance, RatPow(OnePlusZoom, MaxZoomSteps))
MinDistance == RatDiv(InitCamera.distance, RatPow(OnePlusZoom, MaxZoomSteps))

CamInit ==
    /\ camera = InitCamera
    /\ holding_mouse1 = FALSE
    /\ holding_mouse2 = FALSE

\* case SDL_MOUSEBUTTONDOWN, lines 414-419
MouseButtonDown(button) ==
    /\ holding_mouse1' = IF button = "left" THEN TRUE ELSE holding_mouse1
    /\ holding_mouse2' = IF button = "left" THEN holding_mouse2
                         ELSE IF button = "right" THEN TRUE ELSE holding_mouse2
    /\ UNCHANGED camera

\* case SDL_MOUSEBUTTONUP, lines 408-413
MouseButtonUp(button) ==
    /\ holding_mouse1' = IF button = "left" THEN FALSE ELSE holding_mouse1
    /\ holding_mouse2' = IF button = "left" THEN holding_mouse2
                         ELSE IF button = "right" THEN FALSE ELSE holding_mouse2
    /\ UNCHANGED camera

\* case SDL_MOUSEMOTION, lines 384-399
MouseMotion(x_rel, y_rel, want_capture_mouse) ==
    LET rotated == IF holding_mouse1
                   THEN [camera EXCEPT !.yaw = RotatedYaw(camera.yaw, x_rel),
                                       !.pitch = RotatedPitch(camera.pitch, y_rel)]
                   ELSE camera
        panned == IF holding_mouse2
                  THEN [rotated EXCEPT
                          !.origin.pan_right = rotated.origin.pan_right + (-x_rel),
                          !.origin.pan_up = rotated.origin.pan_up + y_rel]
                  ELSE rotated
    IN  /\ camera' = IF want_capture_mouse THEN camera ELSE panned
        /\ Abs(camera'.yaw) <= MaxYaw
        /\ Abs(camera'.origin.pan_right) <= MaxPan
        /\ Abs(camera'.origin.pan_up) <= MaxPan
        /\ UNCHANGED <<holding_mouse1, holding_mouse2>>

\* case SDL_MOUSEWHEEL, lines 400-407
MouseWheel(wheel_y) ==
    /\ wheel_y > 0 => RatLess(MinDistance, camera.distance)
    /\ wheel_y < 0 => RatLess(camera.distance, MaxDistance)
    /\ camera' = [camera EXCEPT !.distance = ZoomedDistance(camera.distance, wheel_y)]
    /\ UNCHANGED <<holding_mouse1, holding_mouse2>>

-----------------------------------------------------------------------------
(* Specifications.  Each one runs one part of the program and keeps the    *)
(* variables of the other parts at rest.                                   *)
BuildIdle ==
    /\ build_pc = "idle"
    /\ build_env = [vs_readable |-> TRUE, fs_readable |-> TRUE, vs_compiles |-> TRUE,
                    fs_compiles |-> TRUE, links |-> TRUE]
    /\ gl_shaders = <<>>
    /\ gl_programs = <<>>
    /\ build_locals = [vs |-> NoValue, fs |-> NoValue, program |-> NoValue]
    /\ build_result = NoValue
    /\ build_created = [shaders |-> {}, programs |-> {}]
    /\ build_baseline = 0

ReconIdle ==
    /\ rc_pc = "idle"
    /\ rc_args = [image_file |-> Undecodable, depth_file |-> Undecodable,
                  focal_length |-> 1, stride |-> 1]
    /\ rc_result = NoResult
    /\ rc_heap = {}

AppIdle ==
    /\ frame_pc = "idle"
    /\ vertices = nullopt
    /\ gl_buffers = [mesh_vbo |-> CubeVertices, mesh_ebo |-> CubeIndices,
                     point_cloud_vbo |-> <<>>]
    /\ array_buffer_binding = "point_cloud_vbo"
    /\ last_error_message = ""
    /\ popup_open = FALSE
    /\ last_draw = NoDraw
    /\ result = NoResult
    /\ leaked_rasters = 0

\* the session: frames and UI handlers of main()'s loop
Init == BuildIdle /\ ReconIdle /\ AppInit /\ CamInit

Next ==
    \/ DrawFrame /\ UNCHANGED <<holding_mouse1, holding_mouse2>>
                 /\ UNCHANGED <<buildVars, reconVars>>
    \/ (\E args \in AppArgs : GenerateButton(args))
                 /\ UNCHANGED <<holding_mouse1, holding_mouse2>>
                 /\ UNCHANGED <<buildVars, reconVars>>
    \/ ClosePopup /\ UNCHANGED <<holding_mouse1, holding_mouse2>>
                  /\ UNCHANGED <<buildVars, reconVars>>
    \/ NoClick /\ UNCHANGED <<holding_mouse1, holding_mouse2>>
               /\ UNCHANGED <<buildVars, reconVars>>

Spec == Init /\ [][Next]_vars

\* one call of create_program(vs_path, fs_path)
InitBuild == BuildInit /\ ReconIdle /\ AppIdle /\ CamInit

NextBuild ==
    \/ ReadVs /\ UNCHANGED <<reconVars, appVars, camVars>>
    \/ ReadFs /\ UNCHANGED <<reconVars, appVars, camVars>>
    \/ CompileVs /\ UNCHANGED <<reconVars, appVars, camVars>>
    \/ CompileFs /\ UNCHANGED <<reconVars, appVars, camVars>>
    \/ Link /\ UNCHANGED <<reconVars, appVars, camVars>>
    \/ DeleteVs /\ UNCHANGED <<reconVars, appVars, camVars>>
    \/ DeleteFs /\ UNCHANGED <<reconVars, appVars, camVars>>
    \/ ReturnProgram /\ UNCHANGED <<reconVars, appVars, camVars>>

SpecBuild == InitBuild /\ [][NextBuild]_vars

\* one call of generate_depth_cloud
InitRecon == BuildIdle /\ ReconInit /\ AppIdle /\ CamInit

NextRecon == Reconstruct /\ UNCHANGED <<buildVars, appVars, camVars>>

SpecRecon == InitRecon /\ [][NextRecon]_vars

\* the mouse handlers of the event loop
InitCam == BuildIdle /\ ReconIdle /\ AppIdle /\ CamInit

NextCamera ==
    \/ (\E b \in Buttons : MouseButtonDown(b))
          /\ UNCHANGED <<buildVars, reconVars, appVars>>
    \/ (\E b \in Buttons : MouseButtonUp(b))
          /\ UNCHANGED <<buildVars, reconVars, appVars>>
    \/ (\E x \in Deltas, y \in Deltas, c \in BOOLEAN : MouseMotion(x, y, c))
          /\ UNCHANGED <<buildVars, reconVars, appVars>>
    \/ (\E y \in WheelValues : MouseWheel(y))
          /\ UNCHANGED <<buildVars, reconVars, appVars>>

SpecCamera == InitCam /\ [][NextCamera]_vars

-----------------------------------------------------------------------------
(* Properties of generate_depth_cloud, checked under SpecRecon.            *)
CeilDiv(a, b) == (a - 1) \div b + 1

Returned == rc_pc = "returned"
Img == rc_args.image_file
Dep == rc_args.depth_file
GridCols == CeilDiv(Img.w, rc_args.stride)
GridRows == CeilDiv(Img.h, rc_args.stride)
\* the pixel the k-th point of a row-major strided scan comes from
GridU(k) == ((k - 1) % GridCols) * rc_args.stride
GridV(k) == ((k - 1) \div GridCols) * rc_args.stride
FileColor(file, u, v) ==
    LET px == file.px[v * file.w + u + 1]
    IN  <<Rat(px[1], 255), Rat(px[2], 255), Rat(px[3], 255)>>
FileGray(file, u, v) == file.px[v * file.w + u + 1][1]

\* C2: on every exit path of generate_depth_cloud every raster that was
\* decoded during the call has been released when the call returns.
C2_DecodedRastersReleased == Returned => rc_heap = {}

\* C3: a successful reconstruction yields exactly ceil(h/s) * ceil(w/s)
\* points, the k-th one coming from the k-th pixel of the strided grid in
\* row-major order (v outer, u inner), every such pixel lying in the image.
C3_StridedGridRowMajor ==
    (Returned /\ rc_result.ok) =>
        /\ Len(rc_result.vertices) = GridRows * GridCols
        /\ \A k \in 1..Len(rc_result.vertices) :
              /\ GridU(k) < Img.w
              /\ GridV(k) < Img.h
              /\ rc_result.vertices[k].color = FileColor(Img, GridU(k), GridV(k))

C3_Witness ==
    /\ Returned /\ rc_result.ok
    /\ Img.w = 3 /\ Img.h = 3 /\ rc_args.stride = 2
    /\ Len(rc_result.vertices) = 4

\* C5: the point of pixel (u, v) with depth d lies at
\* x = d * (w - u - w/2) / f, y = d * (h - v - h/2) / f, z = d, with w/2 and
\* h/2 the exact midpoints, for odd and even w and h alike.
C5_PositionFormula ==
    (Returned /\ rc_result.ok) =>
        \A k \in 1..Len(rc_result.vertices) :
            LET pos == rc_result.vertices[k].position
                d == pos[3]
                f == rc_args.focal_length
            IN  /\ d = Rat(FileGray(Dep, GridU(k), GridV(k)), 255)
                /\ 2 * f * d[2] * pos[1][1]
                      = pos[1][2] * d[1] * (2 * (Img.w - GridU(k)) - Img.w)
                /\ 2 * f * d[2] * pos[2][1]
                      = pos[2][2] * d[1] * (2 * (Img.h - GridV(k)) - Img.h)

\* an odd-sized image: the first point's offset from the midpoint is 1.5
C5_Witness ==
    /\ Returned /\ rc_result.ok
    /\ Img.w = 3 /\ Img.h = 3 /\ rc_args.focal_length = 1
    /\ rc_result.vertices[1].position = <<RatInt(3), RatInt(3), RatInt(2)>>

\* C6: max_depth is the largest gray/255 over the pixels the strided scan
\* visits (0 when all are 0), whatever the skipped pixels hold, and the
\* depth of each point is the depth file's sample at that point's own pixel.
VisitedPixels ==
    {<<u, v>> \in (0..(Img.w - 1)) \X (0..(Img.h - 1)) :
        u % rc_args.stride = 0 /\ v % rc_args.stride = 0}

C6_MaxDepthOverVisited ==
    (Returned /\ rc_result.ok) =>
        /\ \E p \in VisitedPixels :
              rc_result.max_depth = Rat(FileGray(Dep, p[1], p[2]), 255)
        /\ \A p \in VisitedPixels :
              ~RatLess(rc_result.max_depth, Rat(FileGray(Dep, p[1], p[2]), 255))
        /\ \A k \in 1..Len(rc_result.vertices) :
              rc_result.vertices[k].position[3]
                  = Rat(FileGray(Dep, GridU(k), GridV(k)), 255)

\* a skipped pixel holds a larger sample than every visited one
C6_Witness ==
    /\ Returned /\ rc_result.ok
    /\ rc_args.stride = 2 /\ Img.w = 3
    /\ rc_result.max_depth = RatInt(1)
    /\ FileGray(Dep, 1, 0) = 510
    /\ <<1, 0>> \notin VisitedPixels

-----------------------------------------------------------------------------
(* Properties of create_program(vs_path, fs_path), checked under SpecBuild. *)
BuildReturned == build_pc = "returned"
\* a shader the program has passed to glDeleteShader: gone, or flagged and
\* kept by GL only while it stays attached
ShaderReleased(s) == s \notin DOMAIN gl_shaders \/ gl_shaders[s] = "delete_pending"
GLObjectCount == Cardinality(DOMAIN gl_shaders) + Cardinality(DOMAIN gl_programs)

\* C1: when create_program returns, on every path, every shader stage it
\* created has been released; when it returns an error, every shader and
\* program it created is gone and the number of GL objects is the one from
\* before the call.
C1_NoStageSurvivesBuild ==
    BuildReturned =>
        /\ \A s \in build_created.shaders : ShaderReleased(s)
        /\ ~build_result.ok =>
              /\ \A s \in build_created.shaders : s \notin DOMAIN gl_shaders
              /\ \A p \in build_created.programs : p \notin DOMAIN gl_programs
              /\ GLObjectCount = build_baseline

\* the fragment stage failed to compile after the vertex stage was created
C1_Witness ==
    /\ BuildReturned
    /\ build_locals.vs.ok /\ ~build_locals.fs.ok
    /\ ~build_result.ok
    /\ Cardinality(build_created.shaders) = 2
    /\ build_baseline > 0

-----------------------------------------------------------------------------
(* Properties of the session, checked under Spec.                          *)

\* C4: a UI step that ends in a failed reconstruction leaves the current
\* cloud, every GPU buffer, the instance count of the draw and the camera
\* as they were.
C4_FailedAttemptKeepsState ==
    [][(frame_pc = "ui" /\ ~result'.ok)
          => UNCHANGED <<vertices, gl_buffers, array_buffer_binding, last_draw, camera>>]_vars

\* a failed attempt after a successful one: the cloud is still there
C4_Witness ==
    /\ vertices.has_value /\ Len(vertices.value) > 1
    /\ ~result.ok /\ result.error = IoMsg
    /\ last_error_message = IoMsg /\ popup_open
    /\ gl_buffers[InstanceBuffer] = vertices.value
    /\ camera.origin.z = RatInt(1)

\* C7: once a cloud is loaded the per-instance buffer holds exactly the
\* records of the current cloud in order, which after a successful attempt
\* is the cloud just produced; a frame's instanced draw uses as instance
\* count the number of records in that buffer; the mesh buffers keep the cube.
C7_InstanceBufferIsCurrentCloud ==
    /\ vertices.has_value => gl_buffers[InstanceBuffer] = vertices.value
    /\ result.ok => /\ vertices.has_value
                    /\ gl_buffers[InstanceBuffer] = result.vertices
    /\ (frame_pc = "ui" /\ last_draw.submitted)
          => last_draw.instances = Len(gl_buffers[InstanceBuffer])
    /\ gl_buffers.mesh_vbo = CubeVertices
    /\ gl_buffers.mesh_ebo = CubeIndices

\* a smaller cloud has replaced a larger one that the previous frame drew
C7_Witness ==
    /\ frame_pc = "draw" /\ result.ok
    /\ last_draw.submitted
    /\ last_draw.instances = 4
    /\ Len(gl_buffers[InstanceBuffer]) = 1

\* C8: a frame rendered while no cloud is loaded submits no draw; a draw is
\* submitted only with a cloud present, with at least one instance; and
\* before any Generate attempt no error is shown.
C8_NoDrawWithoutCloud ==
    /\ last_draw.submitted => (vertices.has_value /\ last_draw.instances >= 1)
    /\ (frame_pc = "ui" /\ ~vertices.has_value)
          => (last_draw.rendered /\ ~last_draw.submitted)
    /\ result = NoResult => (last_error_message = "" /\ ~popup_open)

\* a frame rendered after a failed attempt, with no cloud loaded yet
C8_Witness ==
    /\ frame_pc = "ui" /\ ~vertices.has_value
    /\ last_draw.rendered /\ ~last_draw.submitted
    /\ last_error_message = FormatMsg

-----------------------------------------------------------------------------
(* Properties of the orbit camera, checked under SpecCamera.               *)

\* C9: pitch stays within [-89, 89] degrees; pitch and yaw change only in a
\* step taken while the left button is held, and then yaw grows by exactly
\* dx * rotate_speed (no clamp, no wrap) and pitch by -dy * rotate_speed
\* clamped to [-89, 89].
C9_PitchClampedYawFree ==
    /\ [](-890 <= camera.pitch /\ camera.pitch <= 890)
    /\ [][(camera'.pitch # camera.pitch \/ camera'.yaw # camera.yaw) =>
            /\ holding_mouse1
            /\ \E dx \in Deltas, dy \in Deltas :
                  /\ camera'.yaw = camera.yaw + dx * RotateSpeed
                  /\ camera'.pitch =
                        Clamp(camera.pitch - dy * RotateSpeed, -890, 890)]_vars

\* the pitch sits on its upper limit while the yaw has passed 180 degrees
C9_Witness ==
    /\ camera.pitch = 890
    /\ camera.yaw = 1800
    /\ holding_mouse1

\* C10 as stated: a zoom step multiplies distance by (1 + zoom_scale) or by
\* (1 - zoom_scale), or leaves it, and distance stays >= 0.
C10_ScalesByOnePlusOrOneMinus ==
    [][/\ ~RatLess(camera'.distance, RatInt(0))
       /\ camera'.distance \in
            {camera.distance,
             RatMul(camera.distance, Rat(11, 10)),
             RatMul(camera.distance, Rat(9, 10))}]_vars

\* C10 as amended: a wheel event with direction < 0 multiplies distance by
\* (1 + zoom_scale), one with direction > 0 divides it by (1 + zoom_scale),
\* one with direction 0 leaves it; distance stays >= 0.
C10_ScalesByOnePlusOrItsInverse ==
    /\ [](~RatLess(camera.distance, RatInt(0)))
    /\ [][\A y \in WheelValues : MouseWheel(y) =>
            camera'.distance =
                IF y < 0 THEN RatMul(camera.distance, Rat(11, 10))
                ELSE IF y > 0 THEN RatDiv(camera.distance, Rat(11, 10))
                ELSE camera.distance]_vars

\* one zoom-in from the initial distance 5: 5 / 1.1 = 50/11, not 4.5
C10_Witness == camera.distance = Rat(50, 11)

=============================================================================
